---------------------------- MODULE Spec2Model ----------------------------
(***************************************************************************)
(* A model of jobsparser's command line scraper (jobsparser/cli.py):       *)
(* main() submits one _scrape_single_site task per requested site to a     *)
(* thread pool, every task pages through its site with retries and sleeps, *)
(* logs through a formatter that reads a thread-local context, and main    *)
(* gathers the returned lists as the tasks complete.                       *)
(***************************************************************************)
EXTENDS Integers, Sequences, FiniteSets, TLC

(* ------------------------------ bounds -------------------------------- *)

\* Largest --results-wanted explored.
MaxWanted == 3
\* Largest --max-retries explored.
MaxRetries == 2
\* Largest --sleep-time explored.
MaxSleep == 1
\* Largest number of --site options explored.
MaxSites == 3
\* Bound on sites * (results_wanted + max_retries): runs with several
\* concurrent sites use smaller targets and retry budgets than runs with one.
MaxWork == 6

\* Largest --batch-size explored: one more than the largest target, so that
\* a batch larger than everything wanted is explored too.
MaxBatch == MaxWanted + 1

(* --------------------------- program constants ------------------------ *)

\* The values --site accepts (click.Choice).
SiteNames == <<"linkedin", "indeed", "glassdoor">>

\* site_colors in main.
site_colors == <<"cyan", "green", "yellow", "magenta", "blue", "red">>

\* A thread-local attribute that is not set.
NoAttr == "<unset>"

\* threading.local(): a fresh thread sees no attribute.
FreshContext == [prefix |-> NoAttr, color |-> NoAttr]

VARIABLES
    site,                  \* main's argument: the tuple of --site values
    results_wanted,        \* --results-wanted
    batch_size,            \* --batch-size
    sleep_time,            \* --sleep-time
    max_retries,           \* --max-retries
    verbose,               \* --verbose: how many times -v was given
    mainpc,                \* where main is: "submit", "collect", "done"
    submitted,             \* how many tasks main has submitted so far
    all_jobs_collected,    \* main's merged list
    completed,             \* the sites whose future main has handled, in order
    report,                \* main's final message: "", "none found", "saved"
    early,                 \* the futures already done when as_completed began
    stdout,                \* main's "Completed. Found N jobs." lines
    errors,                \* main's log lines for the tasks that raised
    finished,              \* the tasks that returned or raised, in that order
    pc,                    \* per task: its position in _scrape_single_site
    thread,                \* per task: the worker thread that runs it (0: none)
    log_context,           \* per thread: the attributes of the thread-local
    offset,                \* per task
    site_all_jobs,         \* per task
    found_all,             \* per task: found_all_available_jobs_for_site
    retry_count,           \* per task
    iteration_results_wanted,  \* per task
    outcome,               \* per task: the branch that ended the loop
    events,                \* per task: its scrape_jobs calls and time.sleep calls
    out                    \* per task: the lines its logging calls produced

cfgvars == <<site, results_wanted, batch_size, sleep_time, max_retries, verbose>>
mainvars == <<mainpc, submitted, all_jobs_collected, completed, report,
              early, stdout, errors>>
taskvars == <<pc, thread, log_context, offset, site_all_jobs, found_all,
              retry_count, iteration_results_wanted, outcome, events, out>>
vars == <<cfgvars, mainvars, finished, taskvars>>

Tasks == 1..Len(site)

\* A pool of one worker.
Threads_One == 1..1

\* ThreadPoolExecutor(max_workers=len(site))
Threads == 1..Len(site)

Min(a, b) == IF a < b THEN a ELSE b

(* --------------------------- logging context -------------------------- *)

\* prefix = f"[{site_name.upper()}] "
Upper(name) ==
    CASE name = "linkedin" -> "[LINKEDIN] "
      [] name = "indeed" -> "[INDEED] "
      [] name = "glassdoor" -> "[GLASSDOOR] "

\* The prefix main hands to task i (i counts from 1, enumerate from 0).
logging_prefix(i) == Upper(site[i])

\* color_index = i % len(site_colors), with enumerate's i = task index - 1.
logging_color(i) == site_colors[((i - 1) % Len(site_colors)) + 1]

\* log_context as one module-level object every thread shares.
ContextSlot_Shared(th) == 0

\* log_context is a threading.local: thread th reads and writes its own slot.
ContextSlot(th) == th

\* getattr(log_context, name, default)
GetAttr(th, name, default) ==
    LET v == log_context[ContextSlot(th)][name]
    IN IF v = NoAttr THEN default ELSE v

\* SiteContextFormatter.format, run by the handler in the emitting thread th:
\* the line is styled with the context's colour when a prefix is set.
Format(th, level, msg) ==
    LET prefix == GetAttr(th, "prefix", "")
        color == GetAttr(th, "color", "reset")
    IN IF prefix # ""
       THEN [fg |-> color, prefix |-> prefix, level |-> level, msg |-> msg]
       ELSE [fg |-> "", prefix |-> "", level |-> level, msg |-> msg]

\* The lines task i's logging calls add to its output, in order.
\* The number of a logging level (logging.DEBUG .. logging.ERROR).
LevelNo(level) ==
    IF level = "DEBUG" THEN 10
    ELSE IF level = "INFO" THEN 20
    ELSE IF level = "WARNING" THEN 30
    ELSE 40

\* logger.setLevel: WARNING without -v, INFO with -v, DEBUG with -vv or more.
LoggerLevel == IF verbose = 0 THEN 30 ELSE IF verbose = 1 THEN 20 ELSE 10

\* Logger.isEnabledFor: the call's level is not below the logger's.
Emitted(call) == LevelNo(call[1]) >= LoggerLevel

Logged(i, calls) ==
    LET pass == SelectSeq(calls, Emitted)
    IN out[i] \o [k \in 1..Len(pass) |-> Format(thread[i], pass[k][1], pass[k][2])]

(* ------------------------------ site task ----------------------------- *)

\* OuterCond without the found_all flag: a task that found everything or
\* gave up would go on fetching.
OuterCond_NoFlag(i) == Len(site_all_jobs[i]) < results_wanted

\* while len(site_all_jobs) < results_wanted_for_site and not found_all...
OuterCond(i) == Len(site_all_jobs[i]) < results_wanted /\ ~found_all[i]

\* InnerCond off by one: one attempt more than max_retries.
InnerCond_OffByOne(i) == retry_count[i] <= max_retries

\* while retry_count < max_retries
InnerCond(i) == retry_count[i] < max_retries

\* A request that is always a whole batch.
Requested_NoCap(i) == batch_size

\* min(batch_size, results_wanted_for_site - len(site_all_jobs))
Requested(i) == Min(batch_size, results_wanted - Len(site_all_jobs[i]))

\* offset += iteration_results_wanted
NextOffset(off, requested, received) == off + requested

\* ShortPage that only takes an empty page for the end of the listing.
ShortPage_EmptyOnly(received, requested) == received = 0

\* if len(new_jobs) < iteration_results_wanted
ShortPage(received, requested) == received < requested

\* The offset after a call that raised, had offset been advanced before the
\* call instead of after it: the failed page would be skipped.
OffsetAfterRaise_Skips(off, requested) == off + requested

\* scrape_jobs raised before "offset += iteration_results_wanted" was
\* reached: the except branch leaves offset as it was.
OffsetAfterRaise(off, requested) == off

\* A pace delay that grows like the error delay.
PaceDelay_Doubled == sleep_time * 2

\* current_sleep_duration = sleep_time
PaceDelay == sleep_time

\* time.sleep raises ValueError for a negative length.
SleepRaises(secs) == secs < 0

\* sleep_time * (retry_count + 1), with retry_count already incremented
ErrorDelay(rc) == sleep_time * (rc + 1)

\* if retry_count >= max_retries
RetriesSpent(rc) == rc >= max_retries

\* The records a page of n holds when fetched at offset off of site task i:
\* the provider's listing numbered from 1.
Page(i, off, n) == [k \in 1..n |-> <<i, off + k>>]

\* A worker thread of the pool that runs no task now.
Free(th) ==
    \A j \in Tasks : thread[j] = th => pc[j] \in {"returned", "collected", "raised", "failed"}
Used(th) == \E j \in Tasks : thread[j] = th

\* The pool starts a thread only when none is idle: the task goes to a thread
\* that ran a task before and is idle, or to the next new thread.
Start(i, th) ==
    /\ pc[i] = "queued"
    /\ Free(th)
    /\ Used(th) \/ \A t \in Threads : t < th => Used(t)
    /\ thread' = [thread EXCEPT ![i] = th]
    /\ log_context' = [log_context EXCEPT ![ContextSlot(th)] =
                          [prefix |-> logging_prefix(i), color |-> logging_color(i)]]
    /\ offset' = [offset EXCEPT ![i] = 0]
    /\ site_all_jobs' = [site_all_jobs EXCEPT ![i] = <<>>]
    /\ found_all' = [found_all EXCEPT ![i] = FALSE]
    /\ pc' = [pc EXCEPT ![i] = "outer"]
    /\ UNCHANGED <<cfgvars, mainvars, finished, retry_count, iteration_results_wanted,
                   outcome, events, out>>

\* An outer iteration that keeps the retry count of the batch before.
OuterEnter_NoReset(i) ==
    /\ pc[i] = "outer"
    /\ OuterCond(i)
    /\ pc' = [pc EXCEPT ![i] = "inner"]
    /\ UNCHANGED <<cfgvars, mainvars, finished, thread, log_context, offset, site_all_jobs,
                   found_all, retry_count, iteration_results_wanted, outcome, events, out>>

\* The outer while's test holds: retry_count = 0.
OuterEnter(i) ==
    /\ pc[i] = "outer"
    /\ OuterCond(i)
    /\ retry_count' = [retry_count EXCEPT ![i] = 0]
    /\ pc' = [pc EXCEPT ![i] = "inner"]
    /\ UNCHANGED <<cfgvars, mainvars, finished, thread, log_context, offset, site_all_jobs,
                   found_all, iteration_results_wanted, outcome, events, out>>

\* The outer while's test fails: log, clear the context, return the list.
Finish(i) ==
    /\ pc[i] = "outer"
    /\ ~OuterCond(i)
    /\ out' = [out EXCEPT ![i] = Logged(i, << <<"INFO", "Finished scraping">> >>)]
    /\ log_context' = [log_context EXCEPT ![ContextSlot(thread[i])] = FreshContext]
    /\ pc' = [pc EXCEPT ![i] = "returned"]
    /\ finished' = Append(finished, i)
    /\ UNCHANGED <<cfgvars, mainvars, thread, offset, site_all_jobs, found_all,
                   retry_count, iteration_results_wanted, outcome, events>>

\* The inner while's test holds: log, compute the page size, call scrape_jobs.
InnerEnter(i) ==
    /\ pc[i] = "inner"
    /\ InnerCond(i)
    /\ out' = [out EXCEPT ![i] = Logged(i, << <<"INFO", "Fetching jobs">> >>)]
    /\ iteration_results_wanted' = [iteration_results_wanted EXCEPT ![i] = Requested(i)]
    /\ pc' = [pc EXCEPT ![i] = "fetch"]
    /\ UNCHANGED <<cfgvars, mainvars, finished, thread, log_context, offset, site_all_jobs,
                   found_all, retry_count, outcome, events>>

\* The inner while's test fails: back to the outer while's test.
InnerExit(i) ==
    /\ pc[i] = "inner"
    /\ ~InnerCond(i)
    /\ pc' = [pc EXCEPT ![i] = "outer"]
    /\ UNCHANGED <<cfgvars, mainvars, finished, thread, log_context, offset, site_all_jobs,
                   found_all, retry_count, iteration_results_wanted, outcome,
                   events, out>>

\* The except branch, entered with retry_count rc - 1 and the events E so
\* far: log, count the failure, sleep before the retry. A sleep that raises
\* does so inside the handler, and the exception leaves the function: the
\* context is not cleared and nothing is returned.
Handler(i, rc, E, lines) ==
    LET nap == [ev |-> "sleep", kind |-> "error", secs |-> ErrorDelay(rc)]
    IN /\ out' = [out EXCEPT ![i] = Logged(i, lines \o << <<"ERROR", "Error scraping">>,
                                                 <<"WARNING", "Sleeping before retry">> >>)]
       /\ retry_count' = [retry_count EXCEPT ![i] = rc]
       /\ events' = [events EXCEPT ![i] = Append(E, nap)]
       /\ IF SleepRaises(nap.secs)
          THEN /\ pc' = [pc EXCEPT ![i] = "raised"]
               /\ finished' = Append(finished, i)
          ELSE /\ pc' = [pc EXCEPT ![i] = "errwait"]
               /\ UNCHANGED finished

\* scrape_jobs returns n records (None or an empty frame: n = 0). The pace
\* sleep is inside the try: when it raises, the except branch runs with the
\* page already appended and offset already advanced.
FetchReturn(i, n) ==
    LET req == iteration_results_wanted[i]
        jobs == site_all_jobs[i] \o Page(i, offset[i], n)
        call == [ev |-> "fetch", offset |-> offset[i], requested |-> req,
                 got |-> n, retry_count |-> retry_count[i]]
        nap == [ev |-> "sleep", kind |-> "pace", secs |-> PaceDelay]
    IN
    /\ pc[i] = "fetch"
    /\ n \in 0..(IF req > 0 THEN req ELSE 0)
    /\ site_all_jobs' = [site_all_jobs EXCEPT ![i] = jobs]
    /\ offset' = [offset EXCEPT ![i] = NextOffset(offset[i], req, n)]
    /\ IF ShortPage(n, req)
       THEN /\ out' = [out EXCEPT ![i] = Logged(i, << <<"INFO", "Scraped jobs">>,
                                       <<"INFO", "No more jobs available">> >>)]
            /\ found_all' = [found_all EXCEPT ![i] = TRUE]
            /\ outcome' = [outcome EXCEPT ![i] = "Exhausted"]
            /\ events' = [events EXCEPT ![i] = Append(@, call)]
            /\ pc' = [pc EXCEPT ![i] = "outer"]
            /\ UNCHANGED <<retry_count, finished>>
       ELSE IF Len(jobs) >= results_wanted
       THEN /\ out' = [out EXCEPT ![i] = Logged(i, << <<"INFO", "Reached desired jobs">> >>)]
            /\ outcome' = [outcome EXCEPT ![i] = "ReachedTarget"]
            /\ events' = [events EXCEPT ![i] = Append(@, call)]
            /\ pc' = [pc EXCEPT ![i] = "outer"]
            /\ UNCHANGED <<found_all, retry_count, finished>>
       ELSE IF SleepRaises(nap.secs)
       THEN /\ Handler(i, retry_count[i] + 1, Append(Append(events[i], call), nap),
                       << <<"INFO", "Scraped jobs">>,
                          <<"INFO", "Sleeping before next batch">> >>)
            /\ UNCHANGED <<found_all, outcome>>
       ELSE /\ out' = [out EXCEPT ![i] = Logged(i, << <<"INFO", "Scraped jobs">>,
                                       <<"INFO", "Sleeping before next batch">> >>)]
            /\ events' = [events EXCEPT ![i] = Append(Append(@, call), nap)]
            /\ pc' = [pc EXCEPT ![i] = "pace"]
            /\ UNCHANGED <<found_all, outcome, retry_count, finished>>
    /\ UNCHANGED <<cfgvars, mainvars, thread, log_context, iteration_results_wanted>>

\* scrape_jobs raises: the except branch runs.
FetchRaise(i) ==
    LET call == [ev |-> "fetch", offset |-> offset[i],
                 requested |-> iteration_results_wanted[i],
                 got |-> -1, retry_count |-> retry_count[i]]
    IN
    /\ pc[i] = "fetch"
    /\ Handler(i, retry_count[i] + 1, Append(events[i], call), <<>>)
    /\ offset' = [offset EXCEPT ![i] = OffsetAfterRaise(@, iteration_results_wanted[i])]
    /\ UNCHANGED <<cfgvars, mainvars, thread, log_context, site_all_jobs,
                   found_all, iteration_results_wanted, outcome>>

\* time.sleep(sleep_time) returns; break.
PaceWake(i) ==
    /\ pc[i] = "pace"
    /\ pc' = [pc EXCEPT ![i] = "outer"]
    /\ UNCHANGED <<cfgvars, mainvars, finished, thread, log_context, offset, site_all_jobs,
                   found_all, retry_count, iteration_results_wanted, outcome,
                   events, out>>

\* time.sleep(sleep_duration_on_error) returns: give up or try again.
ErrorWake(i) ==
    /\ pc[i] = "errwait"
    /\ IF RetriesSpent(retry_count[i])
       THEN /\ out' = [out EXCEPT ![i] = Logged(i, << <<"ERROR", "Max retries reached">> >>)]
            /\ found_all' = [found_all EXCEPT ![i] = TRUE]
            /\ outcome' = [outcome EXCEPT ![i] = "GaveUp"]
            /\ pc' = [pc EXCEPT ![i] = "outer"]
       ELSE /\ pc' = [pc EXCEPT ![i] = "inner"]
            /\ UNCHANGED <<out, found_all, outcome>>
    /\ UNCHANGED <<cfgvars, mainvars, finished, thread, log_context, offset, site_all_jobs,
                   retry_count, iteration_results_wanted, events>>

\* One step of the worker thread that runs task i.
TaskStep(i) ==
    \/ \E th \in Threads : Start(i, th)
    \/ OuterEnter(i)
    \/ Finish(i)
    \/ InnerEnter(i)
    \/ InnerExit(i)
    \/ \E n \in 0..MaxBatch : FetchReturn(i, n)
    \/ FetchRaise(i)
    \/ PaceWake(i)
    \/ ErrorWake(i)

(* -------------------------------- main -------------------------------- *)

\* executor.submit for the next site of the tuple.
Submit ==
    /\ mainpc = "submit"
    /\ submitted < Len(site)
    /\ submitted' = submitted + 1
    /\ pc' = [pc EXCEPT ![submitted + 1] = "queued"]
    /\ UNCHANGED <<cfgvars, mainpc, all_jobs_collected, completed, report, early,
                   stdout, errors, finished, thread, log_context, offset,
                   site_all_jobs, found_all, retry_count, iteration_results_wanted,
                   outcome, events, out>>

\* A task whose future is done: it returned or it raised.
Done(i) == pc[i] \in {"returned", "raised"}

\* Every site is submitted: as_completed begins, and takes the futures that
\* are done by now as one set.
Await ==
    /\ mainpc = "submit"
    /\ submitted = Len(site)
    /\ mainpc' = "collect"
    /\ early' = {i \in Tasks : Done(i)}
    /\ UNCHANGED <<cfgvars, submitted, all_jobs_collected, completed, report,
                   stdout, errors, finished, taskvars>>

\* The positions in finished of the futures main has not handled yet.
Unhandled == {k \in DOMAIN finished : Done(finished[k])}

\* The future as_completed may yield next: any of the set it began with,
\* in the set's order, which is no particular order; after them the others,
\* each as it completes.
YieldsNext(i) ==
    IF \E j \in early : Done(j)
    THEN i \in early /\ Done(i)
    ELSE Unhandled # {} /\ \A k \in Unhandled : \E m \in Unhandled : m <= k /\ finished[m] = i

\* future.result() of a task that returned: the list, and nothing else.
Result(i) == site_all_jobs[i]

\* The line main echoes for a future that returned.
CompletedLine(i) ==
    [fg |-> logging_color(i), prefix |-> logging_prefix(i), msg |-> "Completed",
     found |-> Len(Result(i))]

\* A loop without the try: the exception of a task ends main.
Collect_Propagates(i) ==
    /\ mainpc = "collect"
    /\ YieldsNext(i)
    /\ completed' = Append(completed, i)
    /\ IF pc[i] = "returned"
       THEN /\ all_jobs_collected' = all_jobs_collected \o Result(i)
            /\ stdout' = Append(stdout, CompletedLine(i))
            /\ pc' = [pc EXCEPT ![i] = "collected"]
            /\ UNCHANGED <<mainpc, report>>
       ELSE /\ mainpc' = "done"
            /\ report' = "traceback"
            /\ pc' = [pc EXCEPT ![i] = "failed"]
            /\ UNCHANGED <<all_jobs_collected, stdout>>
    /\ UNCHANGED <<cfgvars, submitted, early, errors, finished, thread,
                   log_context, offset, site_all_jobs, found_all, retry_count,
                   iteration_results_wanted, outcome, events, out>>

\* as_completed yields a future. It returned: extend the merged list by its
\* result and echo the count. It raised: log the exception; the root
\* handler formats the line in the main thread, and the message itself
\* starts with the site's prefix.
Collect(i) ==
    /\ mainpc = "collect"
    /\ YieldsNext(i)
    /\ completed' = Append(completed, i)
    /\ IF pc[i] = "returned"
       THEN /\ all_jobs_collected' = all_jobs_collected \o Result(i)
            /\ stdout' = Append(stdout, CompletedLine(i))
            /\ pc' = [pc EXCEPT ![i] = "collected"]
            /\ UNCHANGED errors
       ELSE /\ errors' = Append(errors, [site |-> logging_prefix(i),
                                 line |-> Format(0, "ERROR", "Task for site generated an exception")])
            /\ pc' = [pc EXCEPT ![i] = "failed"]
            /\ UNCHANGED <<all_jobs_collected, stdout>>
    /\ UNCHANGED <<cfgvars, mainpc, submitted, report, early, finished, thread,
                   log_context, offset, site_all_jobs, found_all, retry_count,
                   iteration_results_wanted, outcome, events, out>>

\* Every future is handled: report nothing found, or save the CSV.
Report ==
    /\ mainpc = "collect"
    /\ \A i \in Tasks : pc[i] \in {"collected", "failed"}
    /\ report' = IF all_jobs_collected = <<>> THEN "none found" ELSE "saved"
    /\ mainpc' = "done"
    /\ UNCHANGED <<cfgvars, submitted, all_jobs_collected, completed, early,
                   stdout, errors, finished, taskvars>>

MainStep ==
    \/ Submit
    \/ Await
    \/ \E i \in Tasks : Collect(i)
    \/ Report

(* ---------------------------- specification --------------------------- *)

\* The --verbose counts explored: none and -v (-vv adds DEBUG lines only,
\* and the program logs none at that level).
VerboseCounts == 0..1

\* The --site tuples explored: the first n choices in turn, and the same
\* site given twice.
SiteTuples ==
    {[k \in 1..n |-> SiteNames[((k - 1) % Len(SiteNames)) + 1]] : n \in 1..MaxSites}
    \cup {[k \in 1..n |-> "linkedin"] : n \in 2..Min(2, MaxSites)}

\* The state when main begins: nothing submitted, nothing collected.
Constructed ==
    /\ mainpc = "submit"
    /\ submitted = 0
    /\ all_jobs_collected = <<>>
    /\ completed = <<>>
    /\ report = ""
    /\ early = {}
    /\ stdout = <<>>
    /\ errors = <<>>
    /\ finished = <<>>
    /\ pc = [i \in Tasks |-> "new"]
    /\ thread = [i \in Tasks |-> 0]
    /\ log_context = [th \in {0} \cup Threads |-> FreshContext]
    /\ offset = [i \in Tasks |-> 0]
    /\ site_all_jobs = [i \in Tasks |-> <<>>]
    /\ found_all = [i \in Tasks |-> FALSE]
    /\ retry_count = [i \in Tasks |-> 0]
    /\ iteration_results_wanted = [i \in Tasks |-> 0]
    /\ outcome = [i \in Tasks |-> "none"]
    /\ events = [i \in Tasks |-> <<>>]
    /\ out = [i \in Tasks |-> <<>>]

\* Valid options. The runs explored are limited in their total work, and a
\* batch larger than results_wanted is tried with one site only.
Init ==
    /\ site \in SiteTuples
    /\ results_wanted \in 1..MaxWanted
    /\ batch_size \in 1..(results_wanted + 1)
    /\ sleep_time \in 0..MaxSleep
    /\ max_retries \in 0..MaxRetries
    /\ verbose \in VerboseCounts
    /\ Len(site) * (results_wanted + max_retries) <= MaxWork
    /\ batch_size <= results_wanted \/ Len(site) = 1
    /\ Constructed

\* The task ends or goes round without a call whatever batch_size is: no
\* record is wanted, no attempt is allowed, or the first sleep raises.
RunsEnd == results_wanted <= 0 \/ max_retries <= 0 \/ sleep_time < 0

\* The options as click parses them: any integers (the type of their
\* defaults), those below their meaning included. A batch_size below 1 is
\* explored together with the options under which the run is bounded; with
\* the others the task calls scrape_jobs for no record for as long as it
\* answers, and the run has no end.
AnyInit ==
    /\ site \in {t \in SiteTuples : Len(t) <= 2}
    /\ results_wanted \in (0 - 1)..Min(2, MaxWanted)
    /\ batch_size \in (0 - 1)..Min(2, MaxWanted)
    /\ sleep_time \in (0 - 1)..MaxSleep
    /\ max_retries \in (0 - 1)..Min(1, MaxRetries)
    /\ verbose \in VerboseCounts \cup {2}
    /\ batch_size >= 1 \/ RunsEnd
    /\ Constructed

Next ==
    \/ Submit
    \/ Await
    \/ \E i \in Tasks : Collect(i)
    \/ Report
    \/ \E i \in Tasks, th \in Threads : Start(i, th)
    \/ \E i \in Tasks : OuterEnter(i)
    \/ \E i \in Tasks : Finish(i)
    \/ \E i \in Tasks : InnerEnter(i)
    \/ \E i \in Tasks : InnerExit(i)
    \/ \E i \in Tasks, n \in 0..MaxBatch : FetchReturn(i, n)
    \/ \E i \in Tasks : FetchRaise(i)
    \/ \E i \in Tasks : PaceWake(i)
    \/ \E i \in Tasks : ErrorWake(i)

Spec == Init /\ [][Next]_vars

\* The same program started with whatever options the command line gives.
AnySpec == AnyInit /\ [][Next]_vars

\* AnySpec with every thread kept running.
FairAnySpec ==
    /\ AnySpec
    /\ WF_vars(MainStep)
    /\ \A i \in 1..MaxSites : WF_vars(i \in Tasks /\ TaskStep(i))

\* Every worker thread and the main thread keep running: the interpreter
\* schedules each thread that can take a step.
FairSpec ==
    /\ Spec
    /\ WF_vars(MainStep)
    /\ \A i \in 1..MaxSites : WF_vars(i \in Tasks /\ TaskStep(i))


(* ------------------------ what the runs are read by ------------------- *)

\* Task i has returned its list (main may have handled the future already).
Returned(i) == pc[i] \in {"returned", "collected"}

\* Task i's scrape_jobs calls, in order.
FetchSeq(i) == SelectSeq(events[i], LAMBDA e : e.ev = "fetch")

\* Task i's time.sleep calls, in order.
SleepSeq(i) == SelectSeq(events[i], LAMBDA e : e.ev = "sleep")

\* Every call of task i so far returned exactly what it asked for.
AllFull(i) == \A k \in DOMAIN FetchSeq(i) : FetchSeq(i)[k].got = FetchSeq(i)[k].requested

\* Every call of task i so far raised.
AllFailed(i) == \A k \in DOMAIN FetchSeq(i) : FetchSeq(i)[k].got = -1

\* ceil(a / b)
CeilDiv(a, b) == (a + b - 1) \div b

(* -------------------------------- C1 ---------------------------------- *)

\* C1: for every valid configuration, max_retries = 0 included, and whatever
\* the fetches do, every site task eventually returns.
C1_EveryTaskReturns == <>(\A i \in Tasks : Returned(i))

(* -------------------------------- C2 ---------------------------------- *)

\* C2: a successful fetch moves offset on by the number of records received,
\* also when the page is shorter than requested.
C2_OffsetAdvancesByReceived ==
    [][\A i \in Tasks :
          LET before == FetchSeq(i)
              after == FetchSeq(i)'
          IN (Len(after) > Len(before) /\ after[Len(after)].got >= 0)
                 => offset'[i] = offset[i] + after[Len(after)].got]_vars

(* -------------------------------- C3 ---------------------------------- *)

\* C3: with max_retries = 0 a task still returns, and when its fetch fails
\* it has given up after that one call, with no second call.
C3_ZeroRetriesGiveUpAtOnce ==
    (max_retries = 0) =>
        <>(\A i \in Tasks :
              /\ Returned(i)
              /\ (Len(FetchSeq(i)) > 0 /\ FetchSeq(i)[1].got = -1)
                     => (outcome[i] = "GaveUp" /\ Len(FetchSeq(i)) = 1))

(* -------------------------------- C4 ---------------------------------- *)

\* What C4 says of a task whose calls all returned the requested count:
\* ceil(W/B) calls, the k-th (from 0) at offset k*B asking min(B, W - k*B),
\* W records collected and the exhausted flag not set.
Paginated(i) ==
    LET F == FetchSeq(i)
    IN /\ Len(F) = CeilDiv(results_wanted, batch_size)
       /\ \A k \in DOMAIN F :
             /\ F[k].offset = (k - 1) * batch_size
             /\ F[k].requested = Min(batch_size, results_wanted - (k - 1) * batch_size)
       /\ Len(site_all_jobs[i]) = results_wanted
       /\ ~found_all[i]

\* C4: when every fetch returns exactly the requested count, every task
\* returns after ceil(W/B) calls at offsets 0, B, 2B, ... with W records.
C4_FullPagesPaginate == <>(\A i \in Tasks : Returned(i) /\ (AllFull(i) => Paginated(i)))

\* The part of C4 the code keeps: a task that has returned after full pages
\* only has paginated as C4 says.
C4_ReturnedAfterFullPages == \A i \in Tasks : (Returned(i) /\ AllFull(i)) => Paginated(i)

(* -------------------------------- C5 ---------------------------------- *)

\* Event e is a call that succeeded with fewer records than requested.
IsShortFetch(e) == e.ev = "fetch" /\ e.got >= 0 /\ e.got < e.requested

\* C5: a successful call that returns fewer records than requested, zero
\* included, is the task's last call and no wait follows it; the exhausted
\* flag is set, retry_count is what it was at the call, and the task is at
\* the failing loop test or has returned.
C5_ShortPageEndsTask ==
    \A i \in Tasks : \A k \in DOMAIN events[i] :
        IsShortFetch(events[i][k]) =>
            /\ k = Len(events[i])
            /\ found_all[i]
            /\ outcome[i] = "Exhausted"
            /\ retry_count[i] = events[i][k].retry_count
            /\ \/ pc[i] = "outer" /\ ~OuterCond(i)
               \/ Returned(i)

\* Two concurrent tasks have returned, one after an empty page and one
\* after a page that was short but not empty.
C5_Witness ==
    \E i, j \in Tasks :
        /\ Returned(i) /\ Returned(j)
        /\ events[i] # <<>> /\ events[j] # <<>>
        /\ LET e == events[i][Len(events[i])]
               f == events[j][Len(events[j])]
           IN /\ IsShortFetch(e) /\ e.got = 0
              /\ IsShortFetch(f) /\ f.got > 0

(* -------------------------------- C6 ---------------------------------- *)

\* What C6 says of a task whose calls all raised: max_retries waits of
\* sleep_time*2, sleep_time*3, ..., nothing collected, gave up.
RetriesExhausted(i) ==
    LET S == SleepSeq(i)
    IN /\ Len(S) = max_retries
       /\ \A k \in DOMAIN S : S[k].kind = "error" /\ S[k].secs = sleep_time * (k + 1)
       /\ Len(site_all_jobs[i]) = 0
       /\ found_all[i]
       /\ outcome[i] = "GaveUp"

\* C6: when every fetch fails, every task returns after exactly max_retries
\* error waits of sleep_time*2, ..., sleep_time*(max_retries+1), empty-handed.
C6_AlwaysFailingGivesUp == <>(\A i \in Tasks : Returned(i) /\ (AllFailed(i) => RetriesExhausted(i)))

\* The part of C6 the code keeps: a task that has returned after failures
\* only has waited and given up as C6 says.
C6_ReturnedAfterFailures ==
    \A i \in Tasks : (Returned(i) /\ AllFailed(i) /\ Len(FetchSeq(i)) > 0) => RetriesExhausted(i)

(* -------------------------------- C7 ---------------------------------- *)

\* C7: a call that raised and is followed by another call is followed by
\* exactly one error wait and then by a call with the same offset and the
\* same requested count; when that call returns a full page short of the
\* target, the pace wait and the call of the next page follow.
C7_FailedPageIsRetried ==
    \A i \in Tasks : \A k \in DOMAIN events[i] :
        LET E == events[i]
        IN (E[k].ev = "fetch" /\ E[k].got = -1
               /\ \E m \in (k + 1)..Len(E) : E[m].ev = "fetch")
           => /\ E[k + 1].ev = "sleep" /\ E[k + 1].kind = "error"
              /\ E[k + 2].ev = "fetch"
              /\ E[k + 2].offset = E[k].offset
              /\ E[k + 2].requested = E[k].requested
              /\ (E[k + 2].got = E[k + 2].requested /\ Len(E) >= k + 4)
                    => /\ E[k + 3].ev = "sleep" /\ E[k + 3].kind = "pace"
                       /\ E[k + 4].ev = "fetch"
                       /\ E[k + 4].offset = E[k + 2].offset + E[k + 2].requested
                       /\ E[k + 4].retry_count = 0

\* A task failed on a page after the first, got the page on the retry and
\* went on to call for the next page.
C7_Witness ==
    \E i \in Tasks : \E k \in DOMAIN events[i] :
        LET E == events[i]
        IN /\ E[k].ev = "fetch" /\ E[k].got = -1 /\ E[k].offset > 0
           /\ Len(E) >= k + 4
           /\ E[k + 2].ev = "fetch" /\ E[k + 2].got = E[k + 2].requested
           /\ E[k + 4].ev = "fetch"

(* -------------------------------- C8 ---------------------------------- *)

\* C8: once a task has ended its loop with an outcome, the outcome stays as
\* it is, no call or wait is added, and the task never stands in the loop
\* body again.
C8_OutcomeIsFinal ==
    [][\A i \in Tasks :
          outcome[i] # "none"
              => /\ outcome'[i] = outcome[i]
                 /\ events'[i] = events[i]
                 /\ pc'[i] \notin {"inner", "fetch", "pace", "errwait"}]_vars

\* A task has returned short of its target after more than one call, and
\* main has handled it.
C8_Witness ==
    \E i \in Tasks :
        /\ pc[i] = "collected"
        /\ outcome[i] \in {"Exhausted", "GaveUp"}
        /\ Len(site_all_jobs[i]) < results_wanted
        /\ Len(FetchSeq(i)) >= 2

(* -------------------------------- C9 ---------------------------------- *)

\* C9: retry_count never exceeds max_retries; every call was issued with
\* retry_count below max_retries; and a task has given up exactly when its
\* last call raised, took retry_count to max_retries, and the wait is over.
C9_RetryBudget ==
    \A i \in Tasks :
        LET F == FetchSeq(i)
        IN /\ retry_count[i] <= max_retries
           /\ \A k \in DOMAIN F : F[k].retry_count < max_retries
           /\ pc[i] = "fetch" => retry_count[i] < max_retries
           /\ outcome[i] = "GaveUp"
                 <=> /\ F # <<>>
                     /\ F[Len(F)].got = -1
                     /\ F[Len(F)].retry_count + 1 = max_retries
                     /\ pc[i] # "errwait"

\* A task gave up at the second failure in a row, another failure in a row
\* having been retried.
C9_Witness ==
    \E i \in Tasks :
        /\ outcome[i] = "GaveUp"
        /\ max_retries >= 2
        /\ Len(FetchSeq(i)) > max_retries

(* -------------------------------- C10 --------------------------------- *)

\* Task i is between its first and its last statement.
Running(i) == pc[i] \in {"outer", "inner", "fetch", "pace", "errwait"}

\* C10: every line a task logged carries the prefix and the colour main gave
\* that task, and a running task reads its own prefix and colour from
\* log_context whatever the other tasks have set or cleared.
C10_OwnPrefixAndColour ==
    \A i \in Tasks :
        /\ \A k \in DOMAIN out[i] :
              /\ out[i][k].prefix = logging_prefix(i)
              /\ out[i][k].fg = logging_color(i)
        /\ Running(i) =>
              /\ GetAttr(thread[i], "prefix", "") = logging_prefix(i)
              /\ GetAttr(thread[i], "color", "reset") = logging_color(i)

\* Two tasks with different prefixes ran on two threads at once; one has
\* returned and cleared its context, the other started after it, has logged
\* and is in a call.
C10_Witness ==
    \E i, j \in Tasks :
        /\ i < j
        /\ logging_prefix(i) # logging_prefix(j)
        /\ Returned(i) /\ out[i] # <<>>
        /\ pc[j] = "fetch" /\ Len(out[j]) >= 3
        /\ thread[i] # thread[j]


RECURSIVE Merged(_)
\* The lists of the tasks q that returned, one after the other.
Merged(q) ==
    IF q = <<>> THEN <<>>
    ELSE Merged(SubSeq(q, 1, Len(q) - 1))
         \o (IF pc[q[Len(q)]] = "collected" THEN Result(q[Len(q)]) ELSE <<>>)

(* -------------------------------- C11 --------------------------------- *)

\* Task i has not finished.
Unfinished(i) == pc[i] \in {"queued", "outer", "inner", "fetch", "pace", "errwait"}

\* What holds at every moment of C11: every unfinished task can step and
\* main can handle futures although a task raised; a raised task that main
\* has handled has an error line with its site's prefix and no record in
\* the merged list; when main is done every task is handled and the merged
\* list is the lists of all the tasks that returned.
C11_Contained ==
    /\ \A i, j \in Tasks :
          (pc[i] \in {"raised", "failed"} /\ Unfinished(j)) => ENABLED TaskStep(j)
    /\ (mainpc = "collect" /\ \E i \in Tasks : pc[i] = "raised") => ENABLED MainStep
    /\ \A i \in Tasks : pc[i] = "failed" =>
          /\ \E k \in DOMAIN errors :
                errors[k].site = logging_prefix(i) /\ errors[k].line.level = "ERROR"
          /\ \A k \in DOMAIN all_jobs_collected : all_jobs_collected[k][1] # i
    /\ Len(errors) = Cardinality({i \in Tasks : pc[i] = "failed"})
    /\ mainpc = "done" =>
          /\ \A j \in Tasks : pc[j] \in {"collected", "failed"}
          /\ all_jobs_collected = Merged(completed)
          /\ \A j \in Tasks : pc[j] = "collected" =>
                \A r \in DOMAIN Result(j) :
                    \E k \in DOMAIN all_jobs_collected : all_jobs_collected[k] = Result(j)[r]

\* C11: when a task raises, main catches it, logs it as that site's failure
\* and still finishes; the other tasks run to their end and their records
\* are in the merged list.
C11_FailureIsContained ==
    /\ []C11_Contained
    /\ (\E i \in Tasks : pc[i] = "raised")
          ~> (mainpc = "done" /\ \A j \in Tasks : pc[j] \in {"collected", "failed"})

\* Main is done and has saved; one task raised and another returned records.
C11_Witness ==
    \E i, j \in Tasks :
        /\ mainpc = "done"
        /\ pc[i] = "failed"
        /\ pc[j] = "collected" /\ Result(j) # <<>>
        /\ report = "saved"

(* -------------------------------- C12 --------------------------------- *)

RECURSIVE SumFound(_)
\* The counts of the lines L added up.
SumFound(L) == IF L = <<>> THEN 0 ELSE L[Len(L)].found + SumFound(SubSeq(L, 1, Len(L) - 1))

\* The merged list is as long as the counts main echoed add up to.
C12_TotalIsSum == Len(all_jobs_collected) = SumFound(stdout)

\* C12: when every task is handled the total is the sum of the sites'
\* counts, and the line of each site tells its outcome: two sites with
\* different outcomes and the same count get different lines.
C12_BreakdownShowsOutcome ==
    mainpc = "done" =>
        /\ C12_TotalIsSum
        /\ \A a, b \in DOMAIN stdout :
              (/\ outcome[completed[a]] # outcome[completed[b]]
               /\ stdout[a].found = stdout[b].found)
                  => stdout[a].msg # stdout[b].msg

(* -------------------------------- C13 --------------------------------- *)

\* Where x stands in the sequence q.
PosIn(q, x) == CHOOSE k \in DOMAIN q : q[k] = x

\* The merged list is the lists of the handled tasks, whole and in the
\* order main handled them.
C13_ContiguousInFetchOrder == all_jobs_collected = Merged(completed)

\* C13: the merged list holds each site's records together and in fetch
\* order, and the sites in the order their tasks terminated.
C13_CompletionOrder ==
    /\ C13_ContiguousInFetchOrder
    /\ \A a, b \in DOMAIN finished :
          (a < b /\ pc[finished[a]] = "collected" /\ pc[finished[b]] = "collected")
              => PosIn(completed, finished[a]) < PosIn(completed, finished[b])

(* -------------------------------- C14 --------------------------------- *)

\* The options as their help texts mean them: positive counts, a delay and
\* a retry limit that are not negative, at least one site.
ValidConfig ==
    /\ Len(site) >= 1
    /\ results_wanted >= 1
    /\ batch_size >= 1
    /\ sleep_time >= 0
    /\ max_retries >= 0

\* C14: with an option outside its meaning main refuses to run: no task is
\* submitted and no call is made.
C14_InvalidConfigRejected ==
    ~ValidConfig =>
        /\ submitted = 0
        /\ \A i \in Tasks : pc[i] = "new" /\ events[i] = <<>>

(* -------------------------------- C15 --------------------------------- *)

\* C15: what a task that found the source empty hands to main differs from
\* what a task that gave up without a record hands to main.
C15_EmptyResultsTellOutcome ==
    \A i, j \in Tasks :
        (/\ Returned(i) /\ outcome[i] = "Exhausted" /\ Len(Result(i)) = 0
         /\ Returned(j) /\ outcome[j] = "GaveUp" /\ Len(Result(j)) = 0)
            => Result(i) # Result(j)

(* -------------------------------- C16 --------------------------------- *)

\* Task i is in time.sleep.
Sleeping(i) == pc[i] \in {"pace", "errwait"}

\* C16: while a task sleeps, every other task that is submitted and not
\* finished can take its next step, a call or its return included, and
\* main, once it waits for futures, can handle one that is done.
C16_SleepBlocksOnlySleeper ==
    /\ \A i, j \in Tasks :
          (i # j /\ Sleeping(i) /\ pc[j] \in {"queued", "outer", "inner", "fetch"})
              => ENABLED TaskStep(j)
    /\ (mainpc = "collect" /\ \E i, j \in Tasks : Sleeping(i) /\ Done(j))
          => ENABLED MainStep

\* One task sleeps before a retry, a second has not started yet, and a
\* third is done and waits for main, which is collecting.
C16_Witness ==
    \E i, j, k \in Tasks :
        /\ pc[i] = "errwait"
        /\ pc[j] = "queued"
        /\ Done(k)
        /\ mainpc = "collect"

(* -------------------------------- C17 --------------------------------- *)

RECURSIVE PagesOf(_, _)
\* The records of the calls in F that returned, page after page.
PagesOf(i, F) ==
    IF F = <<>> THEN <<>>
    ELSE LET e == F[Len(F)]
             before == PagesOf(i, SubSeq(F, 1, Len(F) - 1))
         IN IF e.got >= 0 THEN before \o Page(i, e.offset, e.got) ELSE before

RECURSIVE RequestedOf(_)
\* The sum of what the calls in F that returned had asked for.
RequestedOf(F) ==
    IF F = <<>> THEN 0
    ELSE RequestedOf(SubSeq(F, 1, Len(F) - 1))
         + (IF F[Len(F)].got >= 0 THEN F[Len(F)].requested ELSE 0)

\* C17: a call that raises leaves the list and the offset as they were, so
\* at every moment the list is the pages of the calls that returned, in
\* order, and the offset is what those calls moved it by; a task that gave
\* up has returned that list and has not raised.
C17_FailureKeepsProgress ==
    \A i \in Tasks :
        /\ site_all_jobs[i] = PagesOf(i, FetchSeq(i))
        /\ offset[i] = RequestedOf(FetchSeq(i))
        /\ (outcome[i] = "GaveUp" /\ pc[i] \notin {"outer", "errwait"}) => Returned(i)

\* A task gave up after a page had come in, and returned that page.
C17_Witness ==
    \E i \in Tasks :
        /\ outcome[i] = "GaveUp"
        /\ Returned(i)
        /\ site_all_jobs[i] # <<>>
        /\ \E k \in DOMAIN FetchSeq(i) : FetchSeq(i)[k].got = -1 /\ FetchSeq(i)[k].offset > 0

(* -------------------------------- C18 --------------------------------- *)

\* The call e was not the last of its task: a full page that left the list
\* short of results_wanted.
NonFinal(e) == e.got = e.requested /\ e.offset + e.got < results_wanted

\* C18: after a call that returned, the task sleeps sleep_time seconds when
\* the batch was not the last, and then only; after a short page or the
\* page that reached results_wanted nothing follows, no sleep and no call.
C18_PaceDelayOnlyBetweenBatches ==
    \A i \in Tasks : \A k \in DOMAIN events[i] :
        LET e == events[i][k]
        IN (e.ev = "fetch" /\ e.got >= 0) =>
              IF NonFinal(e)
              THEN /\ k < Len(events[i])
                   /\ events[i][k + 1] = [ev |-> "sleep", kind |-> "pace", secs |-> sleep_time]
              ELSE k = Len(events[i])

\* With a delay that is not zero, a task slept it after a batch and has
\* returned after its last batch.
C18_Witness ==
    \E i \in Tasks :
        /\ sleep_time > 0
        /\ Returned(i)
        /\ outcome[i] = "ReachedTarget"
        /\ \E k \in DOMAIN events[i] : events[i][k].ev = "sleep" /\ events[i][k].kind = "pace"

(* -------------------------------- C19 --------------------------------- *)

\* C19: the first call of every batch is made with retry_count 0: the first
\* call of the task and every call after one that returned; a call after
\* one that raised is the same batch again with one retry more. A task that
\* gave up made its last max_retries calls on one batch, and all raised.
C19_RetryCountPerBatch ==
    \A i \in Tasks :
        LET F == FetchSeq(i)
        IN /\ \A k \in DOMAIN F :
                 IF k = 1 \/ F[k - 1].got >= 0
                 THEN F[k].retry_count = 0
                 ELSE /\ F[k].retry_count = F[k - 1].retry_count + 1
                      /\ F[k].offset = F[k - 1].offset
           /\ outcome[i] = "GaveUp" =>
                 /\ Len(F) >= max_retries
                 /\ \A k \in (Len(F) - max_retries + 1)..Len(F) :
                        /\ F[k].got = -1
                        /\ F[k].offset = F[Len(F)].offset
                        /\ F[k].retry_count = k - (Len(F) - max_retries + 1)

\* A task had as many failures as max_retries, spread over two batches, and
\* went on: it is in the call after the last of them.
C19_Witness ==
    \E i \in Tasks :
        LET F == FetchSeq(i)
        IN /\ max_retries >= 2
           /\ pc[i] = "fetch"
           /\ outcome[i] = "none"
           /\ Cardinality({k \in DOMAIN F : F[k].got = -1}) >= max_retries
           /\ \E k \in DOMAIN F : F[k].got > 0 /\ k > 1 /\ F[k - 1].got = -1

(* -------------------------------- C20 --------------------------------- *)

\* C20: when scrape_jobs is called the offset is the number of records
\* collected, the request is between 1 and batch_size and does not take the
\* list past results_wanted; the list is the records 1, 2, 3, ... of the
\* site with no gap and no repeat, and never longer than results_wanted.
C20_FetchPreconditions ==
    \A i \in Tasks :
        /\ pc[i] = "fetch" =>
              /\ offset[i] = Len(site_all_jobs[i])
              /\ 1 <= iteration_results_wanted[i]
              /\ iteration_results_wanted[i] <= batch_size
              /\ Len(site_all_jobs[i]) + iteration_results_wanted[i] <= results_wanted
        /\ Len(site_all_jobs[i]) <= results_wanted
        /\ site_all_jobs[i] = [k \in 1..Len(site_all_jobs[i]) |-> <<i, k>>]

\* A task is in its second call, asking for less than a batch because less
\* is missing.
C20_Witness ==
    \E i \in Tasks :
        /\ pc[i] = "fetch"
        /\ offset[i] > 0
        /\ iteration_results_wanted[i] < batch_size

=============================================================================
